---- MODULE Spec2Model ----
(***************************************************************************)
(* A model of workspace/TimeSeries/MakeEnergyPlot.py: the CSV loader       *)
(* (prepare_df), the bin-edge generator (generate_bin_edges), timestamp    *)
(* construction (get_timestamp), histogram filling (fill_histogram on a    *)
(* TH1D), stacking (gen_hstack) and the writer (save_plots).               *)
(*                                                                         *)
(* Numbers.  A time value is a triple <<d, s, f>>: d days since            *)
(* 1970-01-01, s seconds of that day (0..86399) and f twentieths of a      *)
(* second (0..19), i.e. the number (d*86400 + s) + f/20.  The split keeps  *)
(* the timestamps of the 1820s inside the model checker's integers.  A     *)
(* cell value is a natural number (TWh) or NaN, the value pandas gives an  *)
(* empty CSV cell.                                                         *)
(*                                                                         *)
(* A column name is a sequence of tokens, e.g. <<"Coal"," ","(TWh)">> for  *)
(* 'Coal (TWh)', so that str.replace can be modelled by what it removes.   *)
(***************************************************************************)
EXTENDS Integers, Sequences, FiniteSets, TLC

----------------------------------------------------------------------------
(* Bounds of the model. *)

\* at most this many rows in the CSV file
MaxRows == 2
\* the CSV's years range over start_year-1 .. start_year+YearSpan
YearSpan == 2
\* cell values range over NaN and 1..MaxVal
MaxVal == 2
\* a CSV file holds at most this many of the value columns
MaxColumns == 3

----------------------------------------------------------------------------
(* Program constants. *)

\* prepare_df's default start_year
start_year == 1825
\* a time value counts twentieths of a second: MakeEnergyPlot's dt = 0.05
TicksPerSecond == 20
\* MakeEnergyPlot's dt = 0.05, in twentieths of a second
dt_MakeEnergyPlot == 1
\* fill_histogram's default dt = 0
dt_default == 0
\* TimeMode.increments[DAY]
SecondsPerDay == 86400
SecondsPerHour == 3600
SecondsPerMinute == 60
\* the proleptic Gregorian ordinal of 1970-01-01 (datetime's epoch)
EpochOrdinal == 719163
\* numpy.nan, the value of an empty CSV cell (cell values are never negative here)
NaN == -1

\* float addition: NaN is absorbing
FAdd(a, b) == IF a = NaN \/ b = NaN THEN NaN ELSE a + b
\* float '<': False as soon as one side is NaN
FLess(a, b) == a # NaN /\ b # NaN /\ a < b
\* float '==': False as soon as one side is NaN
FEq(a, b) == a # NaN /\ b # NaN /\ a = b

\* t1 < t2 on time values
TLess(t1, t2) ==
    \/ t1[1] < t2[1]
    \/ t1[1] = t2[1] /\ t1[2] < t2[2]
    \/ t1[1] = t2[1] /\ t1[2] = t2[2] /\ t1[3] < t2[3]

\* the time value of a whole number of days plus seconds (seconds may be
\* negative or exceed a day)
TNorm(days, secs) ==
    <<days + (secs \div SecondsPerDay), secs % SecondsPerDay, 0>>

\* t + n seconds
TAddSeconds(t, n) ==
    LET n0 == t[2] + n
    IN  <<t[1] + (n0 \div SecondsPerDay), n0 % SecondsPerDay, t[3]>>

\* t + k twentieths of a second, k < 20 and t a whole number of seconds
TAddTicks(t, k) == <<t[1], t[2], t[3] + k>>

----------------------------------------------------------------------------
(* TimeMode *)

Modes == {"UNKNOWN", "YEAR", "MONTH", "DAY", "HOUR", "MINUTE", "SECOND", "increments"}

\* the members' values; 'increments', a dict assigned in the class body of an
\* Enum, is a member too, and its value is that dict
ModeValue(mode) ==
    CASE mode = "UNKNOWN" -> 0
      [] mode = "YEAR"    -> 1
      [] mode = "MONTH"   -> 2
      [] mode = "DAY"     -> 3
      [] mode = "HOUR"    -> 4
      [] mode = "MINUTE"  -> 5
      [] mode = "SECOND"  -> 6

\* TimeMode.__lt__(mode, other): "TypeError" when a value is the dict
ModeLt(mode, other) ==
    IF mode = "increments" \/ other = "increments"
    THEN "TypeError"
    ELSE IF ModeValue(mode) < ModeValue(other) THEN "True" ELSE "False"

\* TimeMode.increments[mode]: TimeMode.increments is an Enum member, not a
\* dict, and a member cannot be subscripted
IncrementsOf(mode) == "TypeError"

----------------------------------------------------------------------------
(* get_timestamp *)

IsLeap(y) == y % 4 = 0 /\ (y % 100 # 0 \/ y % 400 = 0)

\* datetime._days_before_year
DaysBeforeYear(y) ==
    LET y1 == y - 1
    IN  y1 * 365 + (y1 \div 4) - (y1 \div 100) + (y1 \div 400)

DaysInMonth(y, m) ==
    IF m = 2 THEN (IF IsLeap(y) THEN 29 ELSE 28)
    ELSE IF m \in {4, 6, 9, 11} THEN 30 ELSE 31

\* datetime._days_before_month
RECURSIVE DaysBeforeMonth(_, _)
DaysBeforeMonth(y, m) ==
    IF m = 1 THEN 0 ELSE DaysBeforeMonth(y, m - 1) + DaysInMonth(y, m - 1)

\* datetime._ymd2ord
Ymd2Ord(y, m, d) == DaysBeforeYear(y) + DaysBeforeMonth(y, m) + d

\* dict.get(key, default)
Get(ts_data, key, default) ==
    IF key \in DOMAIN ts_data THEN ts_data[key] ELSE default

\* get_timestamp(ts_data): the Unix timestamp of the date in zone 'Zone' hours
get_timestamp(ts_data) ==
    LET year     == Get(ts_data, "Year", 1970)
        month    == Get(ts_data, "Month", 1)
        day      == Get(ts_data, "Day", 1)
        hour     == Get(ts_data, "Hour", 0)
        minute   == Get(ts_data, "Minute", 0)
        second   == Get(ts_data, "Second", 0)
        zone_off == Get(ts_data, "Zone", 0) * SecondsPerHour
    IN  TNorm(Ymd2Ord(year, month, day) - EpochOrdinal,
              hour * SecondsPerHour + minute * SecondsPerMinute + second - zone_off)

----------------------------------------------------------------------------
(* prepare_df *)

\* the value columns a CSV file may hold, in the order numpy.setdiff1d
\* (a sort) leaves them
ColumnUniverse ==
    << <<"Coal", " ", "(TWh)">>,
       <<"Coal", " ", "(TWh, substituted energy)">>,
       <<"Gas", " ", "(TWh)">>,
       <<"Oil", " ", "(TWh)">> >>

col_sum == <<"Sum", "(TWh)">>

\* df[col_values].sum(axis=1) of one row: NaN cells are skipped
RECURSIVE RowSum(_, _, _)
RowSum(v, cols, i) ==
    IF i > Len(cols) THEN 0
    ELSE (IF v[cols[i]] = NaN THEN 0 ELSE v[cols[i]]) + RowSum(v, cols, i + 1)

\* df = df[df['Year'] > start_year]
KeepRow(row, sy) == row.t["Year"] > sy

\* prepare_df(file, cols_time, start_year): the frame and the value columns.
\* A row is [t |-> its time columns, v |-> its value columns].
prepare_df(rows, columns, sy) ==
    LET kept  == SelectSeq(rows, LAMBDA r : KeepRow(r, sy))
        cvals == SelectSeq(ColumnUniverse, LAMBDA c : c \in columns)
    IN  [df |-> [i \in 1..Len(kept) |->
                    [t |-> kept[i].t,
                     v |-> (col_sum :> RowSum(kept[i].v, cvals, 1)) @@ kept[i].v]],
         col_values |-> Append(cvals, col_sum)]

----------------------------------------------------------------------------
(* generate_bin_edges *)

\* a < b on the records of the time columns, column by column in the order
\* of cols_time (df.sort_values(by=cols_time))
RECURSIVE KeyLess(_, _, _, _)
KeyLess(a, b, ctime, i) ==
    IF i > Len(ctime) THEN FALSE
    ELSE \/ a[ctime[i]] < b[ctime[i]]
         \/ a[ctime[i]] = b[ctime[i]] /\ KeyLess(a, b, ctime, i + 1)

\* df_sorted.iloc[0][cols_time] and df_sorted.iloc[-1][cols_time]
SortedFirst(df, ctime) ==
    df[CHOOSE i \in 1..Len(df) :
        \A j \in 1..Len(df) : ~KeyLess(df[j].t, df[i].t, ctime, 1)].t
SortedLast(df, ctime) ==
    df[CHOOSE i \in 1..Len(df) :
        \A j \in 1..Len(df) : ~KeyLess(df[i].t, df[j].t, ctime, 1)].t

\* for month in range(1, last): res.append(get_timestamp({Year, Month}))
RECURSIVE MonthLoop(_, _, _)
MonthLoop(year, month, last) ==
    IF month >= last THEN <<>>
    ELSE <<get_timestamp([Year |-> year, Month |-> month])>>
         \o MonthLoop(year, month + 1, last)

\* for year in range(first, stop): the month loop of each year
RECURSIVE YearLoop(_, _, _)
YearLoop(year, stop, mode) ==
    IF year >= stop THEN <<>>
    ELSE MonthLoop(year, 1, IF mode = "MONTH" THEN 13 ELSE 2)
         \o YearLoop(year + 1, stop, mode)

\* CalendarEdges without the edge one year after the last year
CalendarEdges_NoClosingEdge(t_min, t_max, mode) ==
    YearLoop(t_min["Year"], t_max["Year"] + 1, mode)

\* the branch of mode < TimeMode.DAY
CalendarEdges(t_min, t_max, mode) ==
    Append(YearLoop(t_min["Year"], t_max["Year"] + 1, mode),
           get_timestamp([Year |-> t_max["Year"] + 1]))

\* generate_bin_edges(df, cols_time, mode): [raised |-> "", res |-> the edges],
\* or the exception it raises.  In the else branch the subscript of
\* TimeMode.increments raises before range(...) is reached.
generate_bin_edges(df, ctime, mode) ==
    IF Len(df) = 0
    THEN [raised |-> "IndexError", res |-> <<>>]
    ELSE LET t_min == SortedFirst(df, ctime)
             t_max == SortedLast(df, ctime)
             lt    == ModeLt(mode, "DAY")
         IN  IF lt = "TypeError"
             THEN [raised |-> "TypeError", res |-> <<>>]
             ELSE IF lt = "True"
             THEN [raised |-> "", res |-> CalendarEdges(t_min, t_max, mode)]
             ELSE [raised |-> IncrementsOf(mode), res |-> <<>>]

----------------------------------------------------------------------------
(* TH1D: init_histogram and fill_histogram *)

\* hname = icol.replace('(TWh, substituted energy)', '').replace('(TWh)', '')
\*             .replace(' ', '')
HName(icol) ==
    SelectSeq(icol, LAMBDA tok :
        tok \notin {"(TWh, substituted energy)", "(TWh)", " "})

\* init_histogram: a TH1D of nbins buckets over bin_edges; bucket 0 is the
\* underflow and bucket nbins+1 the overflow
init_histogram(hname, title, nbins, edges) ==
    [name |-> hname, title |-> title, edges |-> edges,
     content |-> [b \in 0..(nbins + 1) |-> 0]]

\* TAxis::FindBin(x) over variable-width edges: 0 below the first edge,
\* nbins+1 from the last edge on, else the last edge that is <= x
FindBin(edges, x) ==
    LET nbins == Len(edges) - 1
    IN  IF TLess(x, edges[1]) THEN 0
        ELSE IF ~TLess(x, edges[nbins + 1]) THEN nbins + 1
        ELSE CHOOSE i \in 1..nbins :
                /\ ~TLess(x, edges[i])
                /\ \A j \in (i + 1)..nbins : TLess(x, edges[j])

\* TH1D::Fill(x, w): the bucket's content += w
Fill(hist, x, w) ==
    LET bin == FindBin(hist.edges, x)
    IN  [hist EXCEPT !.content[bin] = FAdd(@, w)]

\* the x of one row: get_timestamp(row[columns_time]) + dt
FillX(row, ctime, dt) ==
    TAddTicks(get_timestamp([k \in {ctime[i] : i \in 1..Len(ctime)} |-> row.t[k]]), dt)

\* fill_histogram(hist, df, column, columns_time, dt), rows i..Len(df)
RECURSIVE fill_histogram(_, _, _, _, _, _)
fill_histogram(hist, df, column, ctime, dt, i) ==
    IF i > Len(df) THEN hist
    ELSE fill_histogram(Fill(hist, FillX(df[i], ctime, dt), df[i].v[column]),
                        df, column, ctime, dt, i + 1)

\* TH1::Integral(): the sum of buckets 1..nbins, b on
RECURSIVE Integral(_, _)
Integral(hist, b) ==
    IF b > Len(hist.edges) - 1 THEN 0
    ELSE FAdd(hist.content[b], Integral(hist, b + 1))

----------------------------------------------------------------------------
(* gen_hstack *)

Reverse(s) == [i \in 1..Len(s) |-> s[Len(s) + 1 - i]]

\* list.sort's count_run: the length of the run the list starts with; items
\* are <<key, name>> and n >= 2 elements are known to form the run
RECURSIVE CountRun(_, _, _)
CountRun(s, n, descending) ==
    IF n < Len(s) /\ (FLess(s[n + 1][1], s[n][1]) <=> descending)
    THEN CountRun(s, n + 1, descending)
    ELSE n

\* binarysort's search of the place of pivot in s[l+1 .. r] (l, r count from 0)
RECURSIVE BinarySearch(_, _, _, _)
BinarySearch(s, pivot, l, r) ==
    LET p  == l + ((r - l) \div 2)
        l1 == IF FLess(pivot[1], s[p + 1][1]) THEN l ELSE p + 1
        r1 == IF FLess(pivot[1], s[p + 1][1]) THEN p ELSE r
    IN  IF l1 < r1 THEN BinarySearch(s, pivot, l1, r1) ELSE l1

\* binarysort: insert s[start+1 ..] one by one into the sorted prefix
RECURSIVE BinarySort(_, _)
BinarySort(s, start) ==
    IF start >= Len(s) THEN s
    ELSE LET pivot == s[start + 1]
             l     == BinarySearch(s, pivot, 0, start)
         IN  BinarySort(SubSeq(s, 1, l) \o <<pivot>> \o SubSeq(s, l + 1, start)
                        \o SubSeq(s, start + 2, Len(s)),
                        start + 1)

\* sorted(items) on <<key, name>> items, by key with float '<' (a list of fewer
\* than 64 elements: one run, then binary insertion)
Sorted(s) ==
    IF Len(s) < 2 THEN s
    ELSE LET descending == FLess(s[2][1], s[1][1])
             n          == CountRun(s, 2, descending)
             s1         == IF descending
                           THEN Reverse(SubSeq(s, 1, n)) \o SubSeq(s, n + 1, Len(s))
                           ELSE s
         IN  BinarySort(s1, n)

\* sorted(dict_h.keys(), key=lambda hname: dict_h[hname].Integral())
sorted_hnames(keys, dh) ==
    LET items == [i \in 1..Len(keys) |-> <<Integral(dh[keys[i]], 1), keys[i]>>]
        out   == Sorted(items)
    IN  [i \in 1..Len(out) |-> out[i][2]]

\* gen_hstack(dict_h): the stack's histograms in the order added, and the
\* legend's entries
gen_hstack(keys, dh) ==
    LET names   == sorted_hnames(keys, dh)
        stacked == SelectSeq(names, LAMBDA h : h # <<"Sum">>)
    IN  [hs_energy |-> stacked,
         legend    |-> [i \in 1..Len(stacked) |-> <<stacked[i], "F">>]
                       \o << <<(<<"Sum">>), "L">> >>]

----------------------------------------------------------------------------
(* save_plots *)

\* the files written to outdir
save_plots(keys) ==
    {[file |-> "c_stacked_energy.json", hname |-> <<>>]}
    \cup {[file |-> "h_.json", hname |-> keys[i]] : i \in 1..Len(keys)}
    \cup {[file |-> "Energy_Consumption.root", hname |-> <<>>]}

----------------------------------------------------------------------------
(* The state *)

VARIABLES
    pc,          \* where the run is: "start", "prepared", "fill", "filled",
                 \* "stacked", "saved", "usage" (exit 1) or "raised"
    nargs,       \* len(sys.argv)
    csv,         \* the rows of the input file
    columns,     \* the value columns of the input file
    cols_time,   \* the time columns, in the order given
    mode,        \* the TimeMode given to generate_bin_edges
    dt,          \* the offset given to fill_histogram, in twentieths of a second
    df,          \* the frame prepare_df returned
    col_values,  \* the value columns prepare_df returned
    bin_edges,   \* the edges generate_bin_edges returned
    ith,         \* the index in col_values of the next column to fill
    dict_keys,   \* dict_h's keys in insertion order
    dict_h,      \* dict_h: hname -> histogram
    hs_energy,   \* the histograms added to the stack, in order
    legend,      \* the legend's entries, in order
    files,       \* the files written
    raised       \* the exception that ended the run, or ""

vars == <<pc, nargs, csv, columns, cols_time, mode, dt, df, col_values,
          bin_edges, ith, dict_keys, dict_h, hs_energy, legend, files, raised>>

Years == (start_year - 1)..(start_year + YearSpan)
Values == {NaN} \cup 1..MaxVal

Range(s) == {s[i] : i \in 1..Len(s)}

\* the sequences of at most MaxRows elements of S
SeqsUpTo(S) == UNION {[1..n -> S] : n \in 0..MaxRows}

\* the rows a CSV file with these time and value columns may hold
RowsOf(timeKeys, cols, vals) == [t : timeKeys, v : [cols -> vals]]

\* what MakeEnergyPlot has not yet computed
Blank ==
    /\ pc = "start"
    /\ df = <<>>
    /\ col_values = <<>>
    /\ bin_edges = <<>>
    /\ ith = 0
    /\ dict_keys = <<>>
    /\ dict_h = <<>>
    /\ hs_energy = <<>>
    /\ legend = <<>>
    /\ files = {}
    /\ raised = ""

\* MakeEnergyPlot(sys.argv) on any file of at most MaxRows rows and at most
\* MaxColumns of the value columns
Init ==
    /\ Blank
    /\ nargs \in 1..3
    /\ cols_time = <<"Year">>
    /\ mode = "YEAR"
    /\ dt = dt_MakeEnergyPlot
    /\ columns \in {c \in SUBSET Range(ColumnUniverse) : Cardinality(c) <= MaxColumns}
    /\ csv \in SeqsUpTo(RowsOf([Year : Years], columns, Values))
    /\ nargs < 3 => columns = {} /\ csv = <<>>

----------------------------------------------------------------------------
(* MakeEnergyPlot, step by step *)

\* if len(args) < 3: print usage; sys.exit(1)
Usage ==
    /\ pc = "start"
    /\ nargs < 3
    /\ pc' = "usage"
    /\ UNCHANGED <<nargs, csv, columns, cols_time, mode, dt, df, col_values,
                   bin_edges, ith, dict_keys, dict_h, hs_energy, legend, files,
                   raised>>

\* df, col_values = prepare_df(inpfile, cols_time)
PrepareDf ==
    /\ pc = "start"
    /\ nargs >= 3
    /\ LET r == prepare_df(csv, columns, start_year)
       IN  /\ df' = r.df
           /\ col_values' = r.col_values
    /\ pc' = "prepared"
    /\ UNCHANGED <<nargs, csv, columns, cols_time, mode, dt, bin_edges, ith,
                   dict_keys, dict_h, hs_energy, legend, files, raised>>

\* bin_edges = generate_bin_edges(df, cols_time[, mode]); dict_h = dict()
GenerateBinEdges ==
    /\ pc = "prepared"
    /\ LET r == generate_bin_edges(df, cols_time, mode)
       IN  /\ bin_edges' = r.res
           /\ raised' = r.raised
           /\ pc' = IF r.raised = "" THEN "fill" ELSE "raised"
           /\ ith' = IF r.raised = "" THEN 1 ELSE 0
    /\ UNCHANGED <<nargs, csv, columns, cols_time, mode, dt, df, col_values,
                   dict_keys, dict_h, hs_energy, legend, files>>

\* one turn of the loop over col_values: dict_h[hname] = init_histogram(...);
\* fill_histogram(dict_h[hname], df, icol, cols_time, dt)
FillColumn ==
    /\ pc = "fill"
    /\ LET icol  == col_values[ith]
           hname == HName(icol)
           hist  == init_histogram(hname, icol, Len(bin_edges) - 1, bin_edges)
           full  == fill_histogram(hist, df, icol, cols_time, dt, 1)
       IN  /\ dict_keys' = IF hname \in Range(dict_keys) THEN dict_keys
                           ELSE Append(dict_keys, hname)
           /\ dict_h' = (hname :> full) @@ dict_h
    /\ ith' = ith + 1
    /\ pc' = IF ith = Len(col_values) THEN "filled" ELSE "fill"
    /\ UNCHANGED <<nargs, csv, columns, cols_time, mode, dt, df, col_values,
                   bin_edges, hs_energy, legend, files, raised>>

\* hs_energy, legend = gen_hstack(dict_h)
GenHstack ==
    /\ pc = "filled"
    /\ LET r == gen_hstack(dict_keys, dict_h)
       IN  /\ hs_energy' = r.hs_energy
           /\ legend' = r.legend
    /\ pc' = "stacked"
    /\ UNCHANGED <<nargs, csv, columns, cols_time, mode, dt, df, col_values,
                   bin_edges, ith, dict_keys, dict_h, files, raised>>

\* save_plots(outdir, dict_h, hs_energy, legend)
SavePlots ==
    /\ pc = "stacked"
    /\ files' = save_plots(dict_keys)
    /\ pc' = "saved"
    /\ UNCHANGED <<nargs, csv, columns, cols_time, mode, dt, df, col_values,
                   bin_edges, ith, dict_keys, dict_h, hs_energy, legend, raised>>

Next ==
    \/ Usage
    \/ PrepareDf
    \/ GenerateBinEdges
    \/ FillColumn
    \/ GenHstack
    \/ SavePlots

Spec == Init /\ [][Next]_vars

\* a time value is well formed
IsTime(t) ==
    /\ t[1] \in Int
    /\ t[2] \in 0..(SecondsPerDay - 1)
    /\ t[3] \in 0..(TicksPerSecond - 1)

TypeOK ==
    /\ pc \in {"start", "prepared", "fill", "filled", "stacked", "saved", "usage", "raised"}
    /\ raised \in {"", "IndexError", "TypeError"}
    /\ \A i \in 1..Len(bin_edges) : IsTime(bin_edges[i])
    /\ \A i \in 1..Len(df) : IsTime(FillX(df[i], cols_time, dt))
    /\ Range(dict_keys) = DOMAIN dict_h
    /\ \A h \in DOMAIN dict_h : \A b \in DOMAIN dict_h[h].content :
          dict_h[h].content[b] \in Nat \cup {NaN}

----------------------------------------------------------------------------
(* prepare_df, generate_bin_edges and fill_histogram called with any time   *)
(* columns, any TimeMode and either offset                                  *)

\* the choices of cols_time
TimeColChoices ==
    { <<"Year">>,
      <<"Year", "Month">>,
      <<"Year", "Day", "Hour">>,
      <<"Year", "Minute", "Second">>,
      <<"Year", "Zone">> }

\* the values a time column takes in the file
FieldValues(k) ==
    CASE k = "Year"   -> (start_year + 1)..(start_year + YearSpan)
      [] k = "Month"  -> {1, 12}
      [] k = "Day"    -> {1, 28}
      [] k = "Hour"   -> {0, 23}
      [] k = "Minute" -> {0, 59}
      [] k = "Second" -> {0, 59}
      [] k = "Zone"   -> {-1, 0, 1}

TimeKeys(ctime) ==
    {f \in [Range(ctime) -> UNION {FieldValues(k) : k \in Range(ctime)}] :
        \A k \in Range(ctime) : f[k] \in FieldValues(k)}

InitBins ==
    /\ Blank
    /\ nargs = 3
    /\ cols_time \in TimeColChoices
    /\ mode \in Modes
    /\ dt \in {dt_default, dt_MakeEnergyPlot}
    /\ columns = {ColumnUniverse[1]}
    /\ csv \in SeqsUpTo(RowsOf(TimeKeys(cols_time), columns, {1}))

NextBins ==
    \/ PrepareDf
    \/ GenerateBinEdges
    \/ FillColumn

SpecBins == InitBins /\ [][NextBins]_vars

----------------------------------------------------------------------------
(* What the properties below talk about *)

\* generate_bin_edges has returned its edges
EdgesReturned == pc \in {"fill", "filled", "stacked", "saved"}
\* generate_bin_edges was called on a non-empty frame and the call is over
EdgesCallOver == pc \in {"fill", "filled", "stacked", "saved", "raised"} /\ Len(df) > 0
\* every histogram is built and filled
AllFilled == pc \in {"filled", "stacked", "saved"}

YearsOf(d) == {d[i].t["Year"] : i \in 1..Len(d)}
MinYear(d) == CHOOSE y \in YearsOf(d) : \A z \in YearsOf(d) : y <= z
MaxYear(d) == CHOOSE y \in YearsOf(d) : \A z \in YearsOf(d) : z <= y

\* the timestamps of the rows of the frame
RowTimes(d) == {get_timestamp(d[i].t) : i \in 1..Len(d)}
MinTime(d) == CHOOSE t \in RowTimes(d) : \A u \in RowTimes(d) : ~TLess(u, t)
MaxTime(d) == CHOOSE t \in RowTimes(d) : \A u \in RowTimes(d) : ~TLess(t, u)

\* days from 1970-01-01 to the civil date y-m-d, by counting 400-year eras
\* of a year that starts in March
CivilDays(y, m, d) ==
    LET y1  == IF m <= 2 THEN y - 1 ELSE y
        era == y1 \div 400
        yoe == y1 - era * 400
        mp  == (m + 9) % 12
        doy == ((153 * mp + 2) \div 5) + d - 1
        doe == yoe * 365 + (yoe \div 4) - (yoe \div 100) + doy
    IN  era * 146097 + doe - 719468

\* midnight UTC of the first day of month m of year y
StartOfMonthUTC(y, m) == <<CivilDays(y, m, 1), 0, 0>>

\* a cell's contribution to a sum: an empty cell contributes 0
CellOrZero(x) == IF x = NaN THEN 0 ELSE x

RECURSIVE SeqSum(_, _)
SeqSum(f, i) == IF i > Len(f) THEN 0 ELSE f[i] + SeqSum(f, i + 1)

\* float sum of bucket b over the histograms named names[i..]
RECURSIVE BucketSum(_, _, _)
BucketSum(names, b, i) ==
    IF i > Len(names) THEN 0
    ELSE FAdd(dict_h[names[i]].content[b], BucketSum(names, b, i + 1))

----------------------------------------------------------------------------
(* C8 *)

\* C8: for mode YEAR or MONTH the edges are, for each year from the minimum
\* to the maximum year in order, the UTC start of month m for m = 1..12
\* (MONTH) or m = 1 (YEAR), then one edge at 1 January of the year after the
\* maximum year: (ymax-ymin+1)+1 edges for YEAR, 12*(ymax-ymin+1)+1 for MONTH.
C8_CalendarEdges ==
    (EdgesReturned /\ mode \in {"YEAR", "MONTH"}) =>
        LET ymin   == MinYear(df)
            ymax   == MaxYear(df)
            months == IF mode = "MONTH" THEN 12 ELSE 1
            n      == months * (ymax - ymin + 1)
        IN  /\ Len(bin_edges) = n + 1
            /\ \A k \in 1..n :
                  bin_edges[k] = StartOfMonthUTC(ymin + ((k - 1) \div months),
                                                 ((k - 1) % months) + 1)
            /\ bin_edges[n + 1] = StartOfMonthUTC(ymax + 1, 1)

\* MONTH edges over two different years have been generated
C8_Witness ==
    /\ EdgesReturned
    /\ mode = "MONTH"
    /\ MinYear(df) < MaxYear(df)
    /\ Len(bin_edges) = 12 * (MaxYear(df) - MinYear(df) + 1) + 1

----------------------------------------------------------------------------
(* C9, C10 *)

\* the increment the table TimeMode.increments gives a mode
Increment(m) ==
    CASE m = "DAY"    -> SecondsPerDay
      [] m = "HOUR"   -> SecondsPerHour
      [] m = "MINUTE" -> SecondsPerMinute
      [] m = "SECOND" -> 1

\* t, t+inc, t+2*inc, ... : every such value below stop
RECURSIVE UniformEdges(_, _, _)
UniformEdges(t, stop, inc) ==
    IF ~TLess(t, stop) THEN <<>>
    ELSE <<t>> \o UniformEdges(TAddSeconds(t, inc), stop, inc)

\* C9: for mode DAY, HOUR, MINUTE or SECOND generate_bin_edges completes and
\* returns ts_min, ts_min+inc, ts_min+2*inc, ..., every such value below
\* ts_max+2*inc, with inc 86400, 3600, 60 or 1 and ts_min, ts_max the
\* timestamps of the minimum and maximum row time-keys.
C9_UniformEdges ==
    (EdgesCallOver /\ mode \in {"DAY", "HOUR", "MINUTE", "SECOND"}) =>
        /\ raised = ""
        /\ pc # "raised"
        /\ bin_edges =
              UniformEdges(get_timestamp(SortedFirst(df, cols_time)),
                           TAddSeconds(get_timestamp(SortedLast(df, cols_time)),
                                       2 * Increment(mode)),
                           Increment(mode))

\* C10: with a mode that is none of YEAR, MONTH, DAY, HOUR, MINUTE, SECOND
\* generate_bin_edges returns a single-point sequence: exactly one edge, so
\* no bucket.
C10_DegenerateEdges ==
    (EdgesCallOver /\ mode \notin {"YEAR", "MONTH", "DAY", "HOUR", "MINUTE", "SECOND"}) =>
        /\ raised = ""
        /\ Len(bin_edges) = 1

----------------------------------------------------------------------------
(* C3, C2 *)

\* C3: the edges generate_bin_edges returns are strictly increasing, the
\* first edge is <= the minimum row timestamp and the last edge is > the
\* maximum row timestamp.
C3_EdgesCoverRows ==
    EdgesReturned =>
        /\ \A i \in 1..(Len(bin_edges) - 1) : TLess(bin_edges[i], bin_edges[i + 1])
        /\ ~TLess(MinTime(df), bin_edges[1])
        /\ TLess(MaxTime(df), bin_edges[Len(bin_edges)])

\* C2: the fill timestamp of every row lies in exactly one bucket
\* [edge_i, edge_i+1) of the generated edges, so every histogram holds each
\* row once in a regular bucket and nothing in underflow or overflow.
C2_EveryRowInOneBucket ==
    AllFilled =>
        /\ \A r \in 1..Len(df) :
              Cardinality({i \in 1..(Len(bin_edges) - 1) :
                              /\ ~TLess(FillX(df[r], cols_time, dt), bin_edges[i])
                              /\ TLess(FillX(df[r], cols_time, dt), bin_edges[i + 1])}) = 1
        /\ \A h \in Range(dict_keys) :
              /\ dict_h[h].content[0] = 0
              /\ dict_h[h].content[Len(bin_edges)] = 0

----------------------------------------------------------------------------
(* C6, C7 *)

\* a row of the frame without the added 'Sum(TWh)' cell
WithoutSum(row) ==
    [t |-> row.t, v |-> [c \in (DOMAIN row.v) \ {col_sum} |-> row.v[c]]]

\* C6: prepare_df returns exactly the rows whose Year is not below
\* start_year, in order and unchanged apart from the added 'Sum(TWh)' cell,
\* which is the sum of the row's value columns.
C6_KeepsFromStartYear ==
    pc \notin {"start", "usage"} =>
        LET wanted == SelectSeq(csv, LAMBDA r : r.t["Year"] >= start_year)
        IN  /\ Len(df) = Len(wanted)
            /\ \A i \in 1..Len(df) :
                  /\ WithoutSum(df[i]) = wanted[i]
                  /\ df[i].v[col_sum] =
                        SeqSum([j \in 1..(Len(col_values) - 1) |->
                                   CellOrZero(df[i].v[col_values[j]])], 1)

\* the h_<name>.json files written
HistogramFiles == {f \in files : f.file = "h_.json"}

\* C7: dict_h holds one histogram per value column, the derived Sum column
\* included, and save_plots writes one h_<name>.json per column.
C7_OneHistogramPerColumn ==
    /\ AllFilled => Cardinality(DOMAIN dict_h) = Len(col_values)
    /\ pc = "saved" => Cardinality(HistogramFiles) = Len(col_values)

----------------------------------------------------------------------------
(* C1, C4, C5 *)

\* C1: once every histogram is filled, in every bucket the content of 'Sum'
\* equals the sum of the contents of the other histograms of dict_h.
C1_SumEqualsParts ==
    AllFilled =>
        \A b \in 1..(Len(bin_edges) - 1) :
            FEq(dict_h[<<"Sum">>].content[b],
                BucketSum(SelectSeq(dict_keys, LAMBDA h : h # <<"Sum">>), b, 1))

\* the sum of column c over the rows of the frame whose Year is y, an empty
\* cell counting 0
YearTotal(c, y) ==
    SeqSum([i \in 1..Len(df) |->
               IF df[i].t["Year"] = y THEN CellOrZero(df[i].v[c]) ELSE 0], 1)

\* C4: with year granularity, bucket k of the histogram of value column c
\* holds the sum of c over the kept rows of year minYear+k, a row without a
\* value for c contributing 0; the Sum histogram holds the sum of all value
\* columns over those rows.
C4_BucketHoldsYearTotal ==
    AllFilled =>
        \A j \in 1..Len(col_values) :
            \A k \in 0..(MaxYear(df) - MinYear(df)) :
                FEq(dict_h[HName(col_values[j])].content[k + 1],
                    IF col_values[j] = col_sum
                    THEN SeqSum([n \in 1..(Len(col_values) - 1) |->
                                    YearTotal(col_values[n], MinYear(df) + k)], 1)
                    ELSE YearTotal(col_values[j], MinYear(df) + k))

\* C5: the stack holds exactly the histograms other than 'Sum', each once,
\* and none of them has a smaller integral than one added before it; 'Sum'
\* is not in the stack and is the last entry of the legend, once.
C5_StackOrder ==
    pc \in {"stacked", "saved"} =>
        /\ Range(hs_energy) = Range(dict_keys) \ {<<"Sum">>}
        /\ Len(hs_energy) = Cardinality(Range(hs_energy))
        /\ \A i \in 1..Len(hs_energy) : \A j \in (i + 1)..Len(hs_energy) :
              ~FLess(Integral(dict_h[hs_energy[j]], 1),
                     Integral(dict_h[hs_energy[i]], 1))
        /\ legend[Len(legend)][1] = <<"Sum">>
        /\ Cardinality({i \in 1..Len(legend) : legend[i][1] = <<"Sum">>}) = 1

====
